---- MODULE Spec2Model ----
(***************************************************************************)
(* A model of react-formik-bootstrap-accessible (src/index.tsx):           *)
(*   - the Formik form state the components read (isSubmitting, errors,    *)
(*     submitCount, touched);                                              *)
(*   - the useFocusInvalidField hook (usePrevious + useEffect) of every    *)
(*     mounted field renderer;                                             *)
(*   - what BootstrapInput / BootstrapSelect / BootstrapErrorMessage       *)
(*     render;                                                             *)
(*   - RenderOptions over nested option trees.                             *)
(* Every change of the form state or of a component's props re-renders     *)
(* the mounted components and then runs their effects (Commit).            *)
(***************************************************************************)
EXTENDS Integers, Sequences, FiniteSets, TLC

\* ------------------------------------------------------------------ bounds
MaxSubmitCount == 2
MaxNodes == 4

\* --------------------------------------------------------------- universe
Undefined == "undefined"
\* A ref whose current is null / no element of the document.
Null == [owner |-> 0, part |-> "null"]
\* A component that renders nothing (or is not mounted).
NotRendered == [id |-> Undefined]
\* JavaScript booleans held in a ref that may also hold undefined.
JsBool(b) == IF b THEN "true" ELSE "false"

\* Field names used by the form.
Names == {"a", "b"}

\* Three field renderers: a BootstrapInput, a BootstrapSelect and an
\* application component that calls useFocusInvalidField itself.
Watchers == 1..3

Kind(w) == IF w = 1 THEN "input" ELSE IF w = 2 THEN "select" ELSE "hook"

DefaultName == "a"

\* inputProps of a BootstrapInput / BootstrapSelect: the fields the source reads.
NoInputProps == [id |-> Undefined, type |-> Undefined]

InputPropsSet ==
  { NoInputProps,
    [id |-> "x", type |-> Undefined],
    [id |-> Undefined, type |-> "radio"] }

Range(s) == { s[i] : i \in DOMAIN s }

\* Error mappings: the keys of formikContext.errors in iteration order.
ErrorMaps ==
  { <<>> } \cup { <<n>> : n \in Names }
           \cup UNION { { <<n, m>> : m \in Names \ {n} } : n \in Names }

VARIABLES
  \* Formik state
  isSubmitting, errors, submitCount, touched,
  \* component instances and their props
  mounted, name, smoothScroll, inputProps,
  \* hook state of each instance
  fieldRef, containerElementRef, prevRef, curRef,
  \* the document
  dom, activeElement,
  \* observations: the calls of focusAndScrollIntoViewIfRequired made in the
  \* latest step, whether that step completed a submission, whether a watcher
  \* has made a call since the latest submission started ("no", "once",
  \* "again"), whether it has rendered with isSubmitting true, and whether a
  \* call was made with no element
  calls, transition, focused, observed, failure,
  \* option tree rendering
  options, optionsDom

formVars == <<isSubmitting, errors, submitCount, touched>>
propVars == <<mounted, name, smoothScroll, inputProps>>
hookVars == <<fieldRef, containerElementRef, prevRef, curRef>>
domVars == <<dom, activeElement>>
obsVars == <<calls, transition, focused, observed, failure>>
optVars == <<options, optionsDom>>
vars == <<formVars, propVars, hookVars, domVars, obsVars, optVars>>

\* ------------------------------------------------ useFocusInvalidField

\* ahooks' default shouldUpdate of usePrevious: !Object.is(a, b).
defaultShouldUpdate(a, b) == a # b

\* usePrevious(state): the refs after the call; the hook returns prevRef.
usePrevious(prev, cur, state) ==
  IF defaultShouldUpdate(cur, state)
  THEN [prevRef |-> cur, curRef |-> state]
  ELSE [prevRef |-> prev, curRef |-> cur]

\* A variant that takes the last key of the error mapping.
firstError_LastKey(errs) == IF errs = <<>> THEN Undefined ELSE errs[Len(errs)]

\* Object.keys(formikContext.errors)[0]
firstError(errs) == IF errs = <<>> THEN Undefined ELSE Head(errs)

\* A variant without the test wasSubmitting === true.
ShouldFocus_NoWasSubmitting(wasSubmitting, submitting, errs, nm, ref) ==
  /\ ~submitting
  /\ firstError(errs) = nm
  /\ ref # Null

\* A variant without the test fieldRef.current !== null.
ShouldFocus_NoNullCheck(wasSubmitting, submitting, errs, nm, ref) ==
  /\ wasSubmitting = "true"
  /\ ~submitting
  /\ firstError(errs) = nm

\* The condition of the effect of useFocusInvalidField.
ShouldFocus(wasSubmitting, submitting, errs, nm, ref) ==
  /\ wasSubmitting = "true"
  /\ ~submitting
  /\ firstError(errs) = nm
  /\ ref # Null

\* The arguments of the call focusAndScrollIntoViewIfRequired(fieldRef.current,
\* containerElementRef.current ?? fieldRef.current, smoothScroll).
FocusCall(w, ref, container, smooth) ==
  [w |-> w,
   target |-> ref,
   scroll |-> IF container # Null THEN container ELSE ref,
   smooth |-> smooth]

\* What usePrevious(formikContext.isSubmitting) returns to watcher w in the
\* render of this step.  The refs of an unmounted watcher are undefined.
wasSubmitting(w) ==
  usePrevious(prevRef[w], curRef[w], JsBool(isSubmitting')).prevRef

\* useEffect runs its callback on mount and whenever one of the dependencies
\* [wasSubmitting, isSubmitting, name, errors, smoothScroll] differs from the
\* previous render.  errorsReplaced: this step installed a new errors object.
DepsChanged(w, errorsReplaced) ==
  \/ ~mounted[w]
  \/ wasSubmitting(w) # prevRef[w]
  \/ isSubmitting' # isSubmitting
  \/ name'[w] # name[w]
  \/ errorsReplaced
  \/ smoothScroll'[w] # smoothScroll[w]

\* The effect of useFocusInvalidField of watcher w in this step: the calls of
\* focusAndScrollIntoViewIfRequired it makes.
useFocusInvalidField(w, errorsReplaced) ==
  IF /\ mounted'[w]
     /\ DepsChanged(w, errorsReplaced)
     /\ ShouldFocus(wasSubmitting(w), isSubmitting', errors', name'[w], fieldRef'[w])
  THEN << FocusCall(w, fieldRef'[w], containerElementRef'[w], smoothScroll'[w]) >>
  ELSE << >>

\* The effects of the watchers 1..w run in the order of the component tree.
RECURSIVE RunEffects(_, _)
RunEffects(w, errorsReplaced) ==
  IF w = 0 THEN << >>
  ELSE RunEffects(w - 1, errorsReplaced) \o useFocusInvalidField(w, errorsReplaced)

\* focusAndScrollIntoViewIfRequired moves keyboard focus to the target of the
\* call; the element that has focus after the calls cs.
focusAndScrollIntoViewIfRequired(active, cs) ==
  IF cs = << >> THEN active ELSE cs[Len(cs)].target

CallsBy(cs, w) == Cardinality({ i \in DOMAIN cs : cs[i].w = w })

\* ------------------------------------------------------------ rendering

\* props.fieldProps.meta.error !== undefined
isInvalid(errs, nm) == nm \in Range(errs)

\* A variant that counts a form that was never submitted as submitted.
isSubmitted_OffByOne(count) == count >= 0

\* props.fieldProps.form.submitCount > 0
isSubmitted(count) == count > 0

validationClass(count, errs, nm) ==
  IF isSubmitted(count)
  THEN IF isInvalid(errs, nm) THEN " is-invalid" ELSE " is-valid"
  ELSE ""

\* A variant that ignores inputProps.id.
fieldId_NameOnly(props, nm) == nm

\* props.inputProps?.id ?? name
fieldId(props, nm) == IF props.id # Undefined THEN props.id ELSE nm

invalidFeedbackId(props, nm) == fieldId(props, nm) \o "-feedback"

isCheckboxOrRadio(props) == props.type = "checkbox" \/ props.type = "radio"

\* Formik's ErrorMessage renders its child only for a touched field with an
\* error; BootstrapErrorMessage gives the child the id.
BootstrapErrorMessage(nm, id, errs, tch) ==
  IF nm \in tch /\ nm \in Range(errs)
  THEN [className |-> "invalid-feedback", id |-> id]
  ELSE NotRendered

BootstrapInput(nm, props, count, errs, tch) ==
  [labelFor |-> fieldId(props, nm),
   labelClass |-> IF isCheckboxOrRadio(props) THEN "form-check-label" ELSE "form-label",
   id |-> fieldId(props, nm),
   className |-> (IF isCheckboxOrRadio(props) THEN "form-check-input" ELSE "form-control")
                   \o validationClass(count, errs, nm),
   ariaInvalid |-> isInvalid(errs, nm),
   ariaDescribedby |-> IF isInvalid(errs, nm) THEN invalidFeedbackId(props, nm) ELSE Undefined,
   feedback |-> BootstrapErrorMessage(nm, invalidFeedbackId(props, nm), errs, tch)]

BootstrapSelect(nm, props, count, errs, tch) ==
  [labelFor |-> fieldId(props, nm),
   labelClass |-> "form-label",
   id |-> fieldId(props, nm),
   className |-> "form-select" \o validationClass(count, errs, nm),
   ariaInvalid |-> isInvalid(errs, nm),
   ariaDescribedby |-> IF isInvalid(errs, nm) THEN invalidFeedbackId(props, nm) ELSE Undefined,
   feedback |-> IF isInvalid(errs, nm)
                THEN BootstrapErrorMessage(nm, invalidFeedbackId(props, nm), errs, tch)
                ELSE NotRendered]

\* The elements a renderer attaches to the two refs of the hook.
FieldElement(w) == [owner |-> w, part |-> "field"]
ContainerElement(w) == [owner |-> w, part |-> "container"]

\* ------------------------------------------------------- RenderOptions

\* o.f in JavaScript: undefined when the object has no such property.
Get(o, f) == IF f \in DOMAIN o THEN o[f] ELSE Undefined

\* SelectOption: {value, label, disabled?}
SelectOptionSet ==
  { [value |-> "x", label |-> "X", disabled |-> Undefined],
    [value |-> "", label |-> "choose", disabled |-> "true"] }

\* The label of a SelectOptionGroup is optional.
GroupLabels == { Undefined, "G" }

SelectOptionGroup(label, opts) ==
  [label |-> label, disabled |-> Undefined, options |-> opts]

\* A variant that takes any node with a label or a value for an option.
isSelectOption_Either(o) ==
  \/ Get(o, "label") # Undefined
  \/ Get(o, "value") # Undefined

isSelectOption(o) ==
  /\ Get(o, "label") # Undefined
  /\ Get(o, "value") # Undefined

\* The elements RenderOptions returns for the array options, in order:
\* an <option> for a SelectOption, else an <optgroup> whose children are
\* RenderOptions of the group's options.
RECURSIVE RenderOptions(_)
RenderOptions(opts) ==
  [i \in 1..Len(opts) |->
     IF isSelectOption(opts[i])
     THEN [tag |-> "option",
           value |-> Get(opts[i], "value"),
           disabled |-> Get(opts[i], "disabled"),
           label |-> Get(opts[i], "label")]
     ELSE [tag |-> "optgroup",
           label |-> Get(opts[i], "label"),
           disabled |-> Get(opts[i], "disabled"),
           children |-> RenderOptions(opts[i].options)]]

\* The number of nodes of an option tree.
RECURSIVE NodeCount(_)
NodeCount(opts) ==
  IF opts = << >> THEN 0
  ELSE 1 + (IF "options" \in DOMAIN Head(opts) THEN NodeCount(Head(opts).options) ELSE 0)
         + NodeCount(Tail(opts))

\* ----------------------------------------------------------------- Init

\* The form after its first render: a BootstrapInput for field "a" and a
\* BootstrapSelect for field "b" are mounted, nothing is submitted, touched
\* or in error; the application component is not mounted.
InitialName(w) == IF w = 2 THEN "b" ELSE DefaultName

Init ==
  /\ isSubmitting = FALSE
  /\ errors = <<>>
  /\ submitCount = 0
  /\ touched = {}
  /\ mounted = [w \in Watchers |-> Kind(w) # "hook"]
  /\ name = [w \in Watchers |-> InitialName(w)]
  /\ smoothScroll = [w \in Watchers |-> FALSE]
  /\ inputProps = [w \in Watchers |-> NoInputProps]
  /\ fieldRef = [w \in Watchers |-> IF Kind(w) # "hook" THEN FieldElement(w) ELSE Null]
  /\ containerElementRef =
        [w \in Watchers |-> IF Kind(w) # "hook" THEN ContainerElement(w) ELSE Null]
  /\ prevRef = [w \in Watchers |-> Undefined]
  /\ curRef = [w \in Watchers |->
        IF Kind(w) # "hook"
        THEN usePrevious(Undefined, Undefined, JsBool(FALSE)).curRef
        ELSE Undefined]
  /\ dom = [w \in Watchers |->
        IF Kind(w) = "input"
        THEN BootstrapInput(InitialName(w), NoInputProps, 0, <<>>, {})
        ELSE IF Kind(w) = "select"
        THEN BootstrapSelect(InitialName(w), NoInputProps, 0, <<>>, {})
        ELSE NotRendered]
  /\ activeElement = Null
  /\ calls = <<>>
  /\ transition = FALSE
  /\ focused = [w \in Watchers |-> "no"]
  /\ observed = [w \in Watchers |-> FALSE]
  /\ failure = FALSE
  /\ options = <<>>
  /\ optionsDom = <<>>

\* ---------------------------------------------------------------- Commit

\* What a field renderer puts in the document.
Render(w) ==
  IF ~mounted'[w] THEN NotRendered
  ELSE IF Kind(w) = "input"
       THEN BootstrapInput(name'[w], inputProps'[w], submitCount', errors', touched')
  ELSE IF Kind(w) = "select"
       THEN BootstrapSelect(name'[w], inputProps'[w], submitCount', errors', touched')
  ELSE NotRendered

\* One render pass over the mounted components followed by their effects.
\* The form state and the props of this step are already chosen (primed).
\*   errorsReplaced  the step installed a new errors object
\*   started         the step started a submission
\*   focusBefore     the element that has focus when the effects run
\*   fr, cr          the elements an application component attaches to the
\*                   refs of the hook (BootstrapInput/BootstrapSelect always
\*                   attach their input/select and label/div)
Commit(errorsReplaced, started, focusBefore, fr, cr) ==
  /\ fieldRef' = [w \in Watchers |->
        IF ~mounted'[w] THEN Null
        ELSE IF Kind(w) = "hook" THEN fr[w] ELSE FieldElement(w)]
  /\ containerElementRef' = [w \in Watchers |->
        IF ~mounted'[w] THEN Null
        ELSE IF Kind(w) = "hook" THEN cr[w] ELSE ContainerElement(w)]
  /\ prevRef' = [w \in Watchers |->
        IF mounted'[w] THEN wasSubmitting(w) ELSE Undefined]
  /\ curRef' = [w \in Watchers |->
        IF mounted'[w]
        THEN usePrevious(prevRef[w], curRef[w], JsBool(isSubmitting')).curRef
        ELSE Undefined]
  /\ dom' = [w \in Watchers |-> Render(w)]
  /\ calls' = RunEffects(3, errorsReplaced)
  /\ activeElement' =
        LET kept == IF \E w \in Watchers : focusBefore = fieldRef'[w]
                    THEN focusBefore ELSE Null
        IN focusAndScrollIntoViewIfRequired(kept, calls')
  /\ failure' = (failure \/ \E i \in DOMAIN calls' : calls'[i].target = Null)
  /\ transition' = (isSubmitting /\ ~isSubmitting')
  /\ focused' = [w \in Watchers |->
        IF ~mounted'[w] \/ started THEN "no"
        ELSE IF CallsBy(calls', w) = 0 THEN focused[w]
        ELSE IF focused[w] = "no" THEN "once" ELSE "again"]
  /\ observed' = [w \in Watchers |-> mounted'[w] /\ (observed[w] \/ isSubmitting')]

\* -------------------------------------------------------------- actions

\* Formik: handleSubmit -> SUBMIT_ATTEMPT.
StartSubmit ==
  /\ ~isSubmitting
  /\ submitCount < MaxSubmitCount
  /\ isSubmitting' = TRUE
  /\ submitCount' = submitCount + 1
  /\ touched' = Names
  /\ UNCHANGED <<errors, propVars, optVars>>
  /\ Commit(FALSE, TRUE, activeElement, fieldRef, containerElementRef)

\* Formik: a validation run (on blur or during submission) or setErrors
\* installs a new errors object.  The model keeps the keys of the object, not
\* its messages: e = errors is an object with the same keys and a new message.
SetErrors(e) ==
  /\ errors' = e
  /\ UNCHANGED <<isSubmitting, submitCount, touched, propVars, optVars>>
  /\ Commit(TRUE, FALSE, activeElement, fieldRef, containerElementRef)

\* Formik: SUBMIT_FAILURE / SUBMIT_SUCCESS / setSubmitting(false).
FinishSubmit ==
  /\ isSubmitting
  /\ isSubmitting' = FALSE
  /\ UNCHANGED <<errors, submitCount, touched, propVars, optVars>>
  /\ Commit(FALSE, FALSE, activeElement, fieldRef, containerElementRef)

\* The user visits and leaves the field of watcher w: Formik's handleBlur
\* marks it touched, and no field has focus afterwards.
Blur(w) ==
  /\ mounted[w]
  /\ fieldRef[w] # Null
  /\ touched' = touched \cup {name[w]}
  /\ UNCHANGED <<isSubmitting, errors, submitCount, propVars, optVars>>
  /\ Commit(FALSE, FALSE, Null, fieldRef, containerElementRef)

\* A field renderer is mounted for field n.
Mount(w, n) ==
  /\ ~mounted[w]
  /\ mounted' = [mounted EXCEPT ![w] = TRUE]
  /\ name' = [name EXCEPT ![w] = n]
  /\ UNCHANGED <<formVars, smoothScroll, inputProps, optVars>>
  /\ Commit(FALSE, FALSE, activeElement,
            [fieldRef EXCEPT ![w] = FieldElement(w)],
            [containerElementRef EXCEPT ![w] = ContainerElement(w)])

Unmount(w) ==
  /\ mounted[w]
  /\ mounted' = [mounted EXCEPT ![w] = FALSE]
  /\ name' = [name EXCEPT ![w] = InitialName(w)]
  /\ smoothScroll' = [smoothScroll EXCEPT ![w] = FALSE]
  /\ inputProps' = [inputProps EXCEPT ![w] = NoInputProps]
  /\ UNCHANGED <<formVars, optVars>>
  /\ Commit(FALSE, FALSE, activeElement, fieldRef, containerElementRef)

\* The name passed to the hook changes.
SetName(w, n) ==
  /\ mounted[w]
  /\ n # name[w]
  /\ name' = [name EXCEPT ![w] = n]
  /\ UNCHANGED <<formVars, mounted, smoothScroll, inputProps, optVars>>
  /\ Commit(FALSE, FALSE, activeElement, fieldRef, containerElementRef)

\* An application component changes the smoothScroll argument of the hook.
SetSmoothScroll(w) ==
  /\ mounted[w]
  /\ Kind(w) = "hook"
  /\ smoothScroll' = [smoothScroll EXCEPT ![w] = ~smoothScroll[w]]
  /\ UNCHANGED <<formVars, mounted, name, inputProps, optVars>>
  /\ Commit(FALSE, FALSE, activeElement, fieldRef, containerElementRef)

\* An application component renders, or stops rendering, the elements it
\* attaches to fieldRef and containerElementRef.
SetRefs(w, f, c) ==
  /\ mounted[w]
  /\ Kind(w) = "hook"
  /\ <<f, c>> # <<fieldRef[w], containerElementRef[w]>>
  /\ UNCHANGED <<formVars, propVars, optVars>>
  /\ Commit(FALSE, FALSE, activeElement,
            [fieldRef EXCEPT ![w] = f],
            [containerElementRef EXCEPT ![w] = c])

Next ==
  \/ StartSubmit
  \/ \E e \in ErrorMaps : SetErrors(e)
  \/ FinishSubmit
  \/ \E w \in Watchers : Blur(w)
  \/ \E w \in Watchers, n \in Names : Mount(w, n)
  \/ \E w \in Watchers : Unmount(w)
  \/ \E w \in Watchers, n \in Names : SetName(w, n)
  \/ \E w \in Watchers : SetSmoothScroll(w)
  \/ \E w \in Watchers :
        \E f \in {Null, FieldElement(w)}, c \in {Null, ContainerElement(w)} :
           SetRefs(w, f, c)

Spec == Init /\ [][Next]_vars

\* ---------------------------------------------- the field renderers alone

\* The inputProps of a BootstrapInput / BootstrapSelect change.
SetInputProps(w, p) ==
  /\ mounted[w]
  /\ p # inputProps[w]
  /\ inputProps' = [inputProps EXCEPT ![w] = p]
  /\ UNCHANGED <<formVars, mounted, name, smoothScroll, optVars>>
  /\ Commit(FALSE, FALSE, activeElement, fieldRef, containerElementRef)

FieldRenderers == { w \in Watchers : Kind(w) # "hook" }

\* A form of BootstrapInput and BootstrapSelect fields whose inputProps vary.
NextRender ==
  \/ StartSubmit
  \/ \E e \in ErrorMaps : SetErrors(e)
  \/ FinishSubmit
  \/ \E w \in FieldRenderers : Blur(w)
  \/ \E w \in FieldRenderers, n \in Names : Mount(w, n)
  \/ \E w \in FieldRenderers : Unmount(w)
  \/ \E w \in FieldRenderers, n \in Names : SetName(w, n)
  \/ \E w \in FieldRenderers, p \in InputPropsSet : SetInputProps(w, p)

SpecRender == Init /\ [][NextRender]_vars

\* ------------------------------------------------- the options of a select

\* props.options gets one more option at its end; the select renders again.
AddOption(o) ==
  /\ NodeCount(options) < MaxNodes
  /\ options' = Append(options, o)
  /\ optionsDom' = RenderOptions(options')
  /\ UNCHANGED <<formVars, propVars, hookVars, domVars, obsVars>>

\* The last k entries of props.options are put in a group.
AddGroup(k, label) ==
  /\ NodeCount(options) < MaxNodes
  /\ k \in 0..Len(options)
  /\ options' = Append(SubSeq(options, 1, Len(options) - k),
                       SelectOptionGroup(label,
                          SubSeq(options, Len(options) - k + 1, Len(options))))
  /\ optionsDom' = RenderOptions(options')
  /\ UNCHANGED <<formVars, propVars, hookVars, domVars, obsVars>>

NextOptions ==
  \/ \E o \in SelectOptionSet : AddOption(o)
  \/ \E k \in 0..MaxNodes, label \in GroupLabels : AddGroup(k, label)

SpecOptions == Init /\ [][NextOptions]_vars


\* ================================================================ claims

\* The watchers that made a call in the latest step.
Callers == { calls[i].w : i \in DOMAIN calls }

\* The classes of a rendered input/select without a validation class.
BaseClasses == { "form-control", "form-check-input", "form-select" }

\* C1: after every failed submission (isSubmitting went from true to false,
\* the error mapping is not empty and at least one field in error is rendered
\* by BootstrapInput/BootstrapSelect with its element mounted) the first
\* field in error gets a focusAndScrollIntoViewIfRequired call for its element.
C1_FirstInvalidFieldFocused ==
  ( /\ transition
    /\ errors # << >>
    /\ \E w \in FieldRenderers :
          mounted[w] /\ name[w] \in Range(errors) /\ fieldRef[w] # Null )
  => \E i \in DOMAIN calls :
        /\ name[calls[i].w] = errors[1]
        /\ calls[i].target = fieldRef[calls[i].w]

\* C2: a watcher whose name is the first key of the error mapping and whose
\* focus target is mounted when a submission completes makes exactly one
\* focus call for that completion, and no further re-evaluation of the
\* watcher makes another one before a new submission starts.
C2_OneFocusPerSubmission ==
  \A w \in Watchers :
     /\ ( /\ transition /\ mounted[w] /\ fieldRef[w] # Null
          /\ errors # << >> /\ errors[1] = name[w] )
        => CallsBy(calls, w) = 1
     /\ focused[w] # "again"

\* C3: every focus/scroll call is made for a watcher whose name is, at the
\* moment of the call, the first key of the error mapping; with an empty
\* mapping, or another field first, the watcher makes no call.
C3_OnlyFirstErrorKey ==
  \A w \in Watchers :
     ~(errors # << >> /\ errors[1] = name[w]) => CallsBy(calls, w) = 0

C3_Witness ==
  /\ transition
  /\ Len(errors) = 2
  /\ \E w, v \in Watchers :
        /\ mounted[w] /\ mounted[v]
        /\ name[w] = errors[1] /\ name[v] = errors[2]
        /\ fieldRef[v] # Null
        /\ Callers = {w}

\* C4: when a submission completes while the focus target of a watcher is
\* absent, the watcher makes no call and raises no failure, even when its
\* name is the first key of the error mapping; the form state and the refs
\* and arguments of the watcher stay as they were and focus does not move to it.
C4_AbsentTargetIsNoOp ==
  [][ \A w \in Watchers :
        (isSubmitting /\ ~isSubmitting' /\ mounted[w] /\ fieldRef'[w] = Null)
        => /\ CallsBy(calls', w) = 0
           /\ ~failure'
           /\ focused'[w] = focused[w]
           /\ activeElement'.owner # w
           /\ errors' = errors /\ submitCount' = submitCount /\ touched' = touched
           /\ fieldRef'[w] = fieldRef[w]
           /\ containerElementRef'[w] = containerElementRef[w]
           /\ name'[w] = name[w] /\ smoothScroll'[w] = smoothScroll[w]
    ]_vars

C4_Witness ==
  /\ transition
  /\ ~failure
  /\ \E w \in Watchers :
        /\ mounted[w] /\ fieldRef[w] = Null /\ prevRef[w] = "true"
        /\ errors # << >> /\ errors[1] = name[w]
        /\ CallsBy(calls, w) = 0

C6_AriaAttributes ==
  \A w \in FieldRenderers :
     mounted[w] =>
        /\ dom[w].ariaInvalid = (name[w] \in Range(errors))
        /\ name[w] \in Range(errors) =>
              dom[w].ariaDescribedby =
                 (IF inputProps[w].id = Undefined THEN name[w] ELSE inputProps[w].id)
                    \o "-feedback"
        /\ name[w] \notin Range(errors) => dom[w].ariaDescribedby = Undefined

C6_Witness ==
  /\ submitCount = 0
  /\ mounted[1] /\ mounted[2]
  /\ name[1] \in Range(errors) /\ name[1] \notin touched
  /\ name[2] \notin Range(errors)
  /\ inputProps[1].id = "x"
  /\ dom[1].ariaInvalid /\ dom[1].ariaDescribedby = "x-feedback"
  /\ ~dom[2].ariaInvalid /\ dom[2].ariaDescribedby = Undefined

\* The leaves of an option tree, depth first, in array order.
RECURSIVE LeavesOf(_)
LeavesOf(opts) ==
  IF opts = << >> THEN << >>
  ELSE (IF "options" \in DOMAIN Head(opts)
        THEN LeavesOf(Head(opts).options)
        ELSE << Head(opts) >>) \o LeavesOf(Tail(opts))

\* The <option> elements of a rendering, in document order.
RECURSIVE EmittedOptions(_)
EmittedOptions(elems) ==
  IF elems = << >> THEN << >>
  ELSE (IF Head(elems).tag = "optgroup"
        THEN EmittedOptions(Head(elems).children)
        ELSE << [value |-> Head(elems).value,
                 label |-> Head(elems).label,
                 disabled |-> Head(elems).disabled] >>) \o EmittedOptions(Tail(elems))

\* The number of elements of a rendering.
RECURSIVE ElementCount(_)
ElementCount(elems) ==
  IF elems = << >> THEN 0
  ELSE 1 + (IF Head(elems).tag = "optgroup" THEN ElementCount(Head(elems).children) ELSE 0)
         + ElementCount(Tail(elems))

\* At every level the i-th element is the rendering of the i-th node.
RECURSIVE SameShape(_, _)
SameShape(opts, elems) ==
  /\ Len(opts) = Len(elems)
  /\ \A i \in 1..Len(opts) :
        IF "options" \in DOMAIN opts[i]
        THEN /\ elems[i].tag = "optgroup"
             /\ elems[i].label = opts[i].label
             /\ SameShape(opts[i].options, elems[i].children)
        ELSE /\ elems[i].tag = "option"
             /\ elems[i].value = opts[i].value
             /\ elems[i].label = opts[i].label

RECURSIVE Depth(_)
Depth(opts) ==
  IF opts = << >> THEN 0
  ELSE LET h == IF "options" \in DOMAIN Head(opts) THEN 1 + Depth(Head(opts).options) ELSE 1
           t == Depth(Tail(opts))
       IN IF h > t THEN h ELSE t

RECURSIVE HasEmptyGroup(_)
HasEmptyGroup(opts) ==
  \E i \in 1..Len(opts) :
     /\ "options" \in DOMAIN opts[i]
     /\ (opts[i].options = << >> \/ HasEmptyGroup(opts[i].options))

\* C7: RenderOptions emits every leaf of the option tree exactly once, in
\* depth-first pre-order that keeps the array order at every nesting level,
\* and emits one element per node, also for groups without leaves.
C7_RenderOptionsOrder ==
  /\ EmittedOptions(optionsDom) = LeavesOf(options)
  /\ ElementCount(optionsDom) = NodeCount(options)
  /\ SameShape(options, optionsDom)

C7_Witness ==
  /\ Depth(options) >= 3
  /\ HasEmptyGroup(options)
  /\ Len(LeavesOf(options)) >= 1
  /\ Len(options) >= 2
  /\ EmittedOptions(optionsDom) = LeavesOf(options)

\* C8: when a submission completes at most one watcher makes a focus call:
\* the one whose name is the first key of the error mapping, and only if its
\* focus target exists.
C8_AtMostOneWatcherFocuses ==
  transition =>
     /\ Cardinality(Callers) <= 1
     /\ \A w \in Callers :
           /\ errors # << >> /\ errors[1] = name[w]
           /\ fieldRef[w] # Null

C10_DescribedbyResolves ==
  \A w \in FieldRenderers :
     (mounted[w] /\ dom[w].ariaDescribedby # Undefined)
     => /\ dom[w].feedback # NotRendered
        /\ dom[w].feedback.id = dom[w].ariaDescribedby

====
